---- MODULE Spec2Model ----
(***************************************************************************)
(* Model of src/1.py, the "Social Media Analytics Pro" dashboard script.   *)
(*                                                                         *)
(* The script is re-executed from top to bottom after every change of a    *)
(* sidebar widget.  One execution loads the (cached) event table, derives  *)
(* two columns, filters the table by the three sidebar selections, flags   *)
(* suspicious rows and then fills the tabs.  A data frame is modelled as a *)
(* sequence of records (one record per row, one field per column, `idx`    *)
(* being the row label of the pandas index).  Numbers are integers; a mean *)
(* is kept as the pair (sum, cnt) and the 0.90 quantile as tenths, so that *)
(* all comparisons are exact.  Missing values (NaN cells) are not          *)
(* modelled: every cell of the event table holds a value.                  *)
(***************************************************************************)
EXTENDS Integers, Sequences, FiniteSets, TLC

VARIABLES
    cache,                      \* the table st.cache_data holds for load_data
    df,                         \* this run's copy, with the derived columns
    platform_filter,
    content_filter,
    year_filter,
    filtered_df,                \* with the column "suspicious"
    high_engagement_threshold,  \* {} for NaN, else {tenths}
    fraud_df,
    hourly,
    best_hour,                  \* a "best X" result is a set: {} or {value}
    total_posts,
    fraud_posts,
    risk_level,
    fraud_heatmap,
    safe_df,
    safest,
    best_platform,
    best_eng,
    best_reach,
    best_roi,
    status                      \* how the run ended

vars == <<cache, df, platform_filter, content_filter, year_filter,
          filtered_df, high_engagement_threshold, fraud_df, hourly, best_hour,
          total_posts, fraud_posts, risk_level, fraud_heatmap, safe_df,
          safest, best_platform, best_eng, best_reach, best_roi, status>>

----------------------------------------------------------------------------
(* Bounds of the model *)

MaxRows == 3        \* rows of the event table
MaxBestRows == 3    \* rows of the event table in SpecBest
MaxEng == 2         \* engagement values 1..MaxEng
MaxDetRows == 14    \* rows of the event table in SpecDet
MaxTotal == 20      \* total_posts in SpecRisk

----------------------------------------------------------------------------
(* Values of the cells *)

Platforms == {"Instagram", "Facebook"}
ContentTypes == {"Video", "Image"}
Years == {2024, 2023}
Hours == {9, 18}
Dates == {<<2024, 1, 1>>, <<2024, 1, 5>>}     \* a Monday and a Friday
RoiValues == {0, 1}

\* Sorted order of the strings used as group keys (pandas sorts group keys).
Alphabetical ==
    <<"Facebook", "Friday", "Image", "Instagram", "Monday", "Saturday",
      "Sunday", "Thursday", "Tuesday", "Video", "Wednesday">>

StrRank(s) == CHOOSE i \in 1..Len(Alphabetical) : Alphabetical[i] = s

RawColumns ==
    {"idx", "platform", "content_type", "year", "post_hour", "date", "likes",
     "comments", "shares", "engagement", "reach", "ad_spend", "roi"}

DerivedColumns == RawColumns \cup {"revenue_generated", "day_of_week"}

Row(p, c, y, h, d, l, e, r, a, o) ==
    [platform |-> p, content_type |-> c, year |-> y, post_hour |-> h,
     date |-> d, likes |-> l, comments |-> 0, shares |-> 0, engagement |-> e,
     reach |-> r, ad_spend |-> a, roi |-> o]

----------------------------------------------------------------------------
(* LOAD DATA and DERIVED METRICS *)

\* read_csv gives the rows a RangeIndex 0..n-1
WithIndex(t) == [i \in 1..Len(t) |-> [idx |-> i - 1] @@ t[i]]

\* st.cache_data hands every run its own copy of the cached table
load_data == cache

\* Series.dt.day_name(): the weekday of a calendar date <<y, m, d>>
DaysFromCivil(date) ==
    LET y   == IF date[2] <= 2 THEN date[1] - 1 ELSE date[1]
        era == y \div 400
        yoe == y - era * 400
        mp  == IF date[2] > 2 THEN date[2] - 3 ELSE date[2] + 9
        doy == (153 * mp + 2) \div 5 + date[3] - 1
        doe == yoe * 365 + yoe \div 4 - yoe \div 100 + doy
    IN  era * 146097 + doe - 719468

day_name(date) ==
    <<"Thursday", "Friday", "Saturday", "Sunday", "Monday", "Tuesday",
      "Wednesday">>[(DaysFromCivil(date) % 7) + 1]

\* (revenue taken as ad_spend * roi)
DerivedMetricsGross(d) ==
    [i \in 1..Len(d) |->
        [revenue_generated |-> d[i].ad_spend * d[i].roi,
         day_of_week |-> day_name(d[i].date)] @@ d[i]]

DerivedMetrics(d) ==
    [i \in 1..Len(d) |->
        [revenue_generated |-> d[i].ad_spend * (1 + d[i].roi),
         day_of_week |-> day_name(d[i].date)] @@ d[i]]

----------------------------------------------------------------------------
(* SIDEBAR FILTERS *)

unique(d, col) == {d[i][col] : i \in 1..Len(d)}

\* (an empty selection read as "no restriction")
isinOrEmpty(v, selection) == selection = {} \/ v \in selection

isin(v, selection) == v \in selection

FilterRows(d, pf, cf, yf) ==
    SelectSeq(d, LAMBDA r : /\ isin(r.platform, pf)
                            /\ isin(r.content_type, cf)
                            /\ isin(r.year, yf))

----------------------------------------------------------------------------
(* FRAUD DETECTION LOGIC *)

\* the values of a column in ascending order
SortAsc(s) ==
    [i \in 1..Len(s) |->
        CHOOSE v \in {s[j] : j \in 1..Len(s)} :
            /\ Cardinality({j \in 1..Len(s) : s[j] < v}) < i
            /\ i <= Cardinality({j \in 1..Len(s) : s[j] <= v})]

\* (the 0.80 quantile in place of the 0.90 quantile)
quantile80(s) ==
    IF Len(s) = 0 THEN {}
    ELSE LET n   == Len(s)
             a   == SortAsc(s)
             pos == 8 * (n - 1)
             lo  == pos \div 10
             g   == pos % 10
             hi  == IF lo + 1 < n THEN lo + 1 ELSE n - 1
         IN  {10 * a[lo + 1] + g * (a[hi + 1] - a[lo + 1])}

\* Series.quantile(0.90), linear interpolation, in tenths; {} is NaN
quantile90(s) ==
    IF Len(s) = 0 THEN {}
    ELSE LET n   == Len(s)
             a   == SortAsc(s)
             pos == 9 * (n - 1)
             lo  == pos \div 10
             g   == pos % 10
             hi  == IF lo + 1 < n THEN lo + 1 ELSE n - 1
         IN  {10 * a[lo + 1] + g * (a[hi + 1] - a[lo + 1])}

\* engagement > threshold; a comparison with NaN is false
GreaterThan(e, thr) == \E t \in thr : 10 * e > t

\* (>= in place of >)
IsSuspiciousInclusive(r, thr) ==
    (\E t \in thr : 10 * r.engagement >= t) /\ r.roi <= 0

IsSuspicious(r, thr) == GreaterThan(r.engagement, thr) /\ r.roi <= 0

\* (the column written onto df as well)
SetSuspiciousOnDf(d, f, thr) ==
    [df |-> [i \in 1..Len(d) |->
                [suspicious |-> IsSuspicious(d[i], thr)] @@ d[i]],
     filtered_df |-> [i \in 1..Len(f) |->
                [suspicious |-> IsSuspicious(f[i], thr)] @@ f[i]]]

\* filtered_df["suspicious"] = ... : the column is set on filtered_df, which
\* boolean indexing made a copy of the selected rows; df is not touched
SetSuspicious(d, f, thr) ==
    [df |-> d,
     filtered_df |-> [i \in 1..Len(f) |->
                [suspicious |-> IsSuspicious(f[i], thr)] @@ f[i]]]

----------------------------------------------------------------------------
(* Aggregation: groupby(...).mean() / .size(), .reset_index(), .idxmax() *)

RECURSIVE SumOver(_, _)
SumOver(S, f) ==
    IF S = {} THEN 0
    ELSE LET x == CHOOSE y \in S : TRUE IN f[x] + SumOver(S \ {x}, f)

\* (the group keys in the order of their first row, as groupby(sort=False))
FirstSeenOrder(keys, rank, first) ==
    [p \in 1..Cardinality(keys) |->
        CHOOSE k \in keys :
            Cardinality({x \in keys : first[x] < first[k]}) = p - 1]

\* groupby sorts the group keys (sort=True is the default)
KeyOrder(keys, rank, first) ==
    [p \in 1..Cardinality(keys) |->
        CHOOSE k \in keys :
            Cardinality({x \in keys : rank[x] < rank[k]}) = p - 1]

\* the groups of a table whose row i has the key keyOf[i], the keys being
\* ranked by rank: one entry per key that occurs, with the positions of its
\* rows
groupby(keyOf, rank) ==
    LET keys  == {keyOf[i] : i \in 1..Len(keyOf)}
        first == [k \in keys |->
                    CHOOSE i \in 1..Len(keyOf) :
                        /\ keyOf[i] = k
                        /\ \A j \in 1..(i - 1) : keyOf[j] # k]
        order == KeyOrder(keys, rank, first)
    IN  [p \in 1..Len(order) |->
            [key |-> order[p],
             rows |-> {i \in 1..Len(keyOf) : keyOf[i] = order[p]}]]

\* the mean of column col over the rows of a group, as (sum, cnt)
mean(t, rows, col) ==
    [sum |-> SumOver(rows, [i \in rows |-> t[i][col]]),
     cnt |-> Cardinality(rows)]

\* .size() of a group, in the same shape
size(rows) == [sum |-> Cardinality(rows), cnt |-> 1]

Less(a, b) == a.sum * b.cnt < b.sum * a.cnt

\* Series.idxmax(): the label of the first maximum (the caller has checked
\* that the series is not empty; on an empty one idxmax raises ValueError)
idxmax(col) ==
    CHOOSE p \in 1..Len(col) :
        /\ \A q \in 1..Len(col) : ~Less(col[p], col[q])
        /\ \A q \in 1..(p - 1) : Less(col[q], col[p])

Column(g, col) == [p \in 1..Len(g) |-> g[p][col]]

Range(s) == {s[i] : i \in 1..Len(s)}

\* the sorted order of the keys of a grouping: numbers ascending, names
\* alphabetical, (day_of_week, post_hour) by name and then by hour
SlotRank(k) == 100 * StrRank(k[1]) + k[2]
ByNumber(keyOf) == [k \in Range(keyOf) |-> k]
ByName(keyOf) == [k \in Range(keyOf) |-> StrRank(k)]
BySlot(keyOf) == [k \in Range(keyOf) |-> SlotRank(k)]

SlotOf(t) == [i \in 1..Len(t) |-> <<t[i].day_of_week, t[i].post_hour>>]

----------------------------------------------------------------------------
(* The tabs *)

\* TAB 4: groupby("post_hour")["engagement"].mean().reset_index()
Hourly(f) ==
    LET g == groupby(Column(f, "post_hour"), ByNumber(Column(f, "post_hour")))
    IN  [p \in 1..Len(g) |->
            [post_hour |-> g[p].key,
             engagement |-> mean(f, g[p].rows, "engagement")]]

\* TAB 5: fraud_probability, as the fraction num / den
FraudProbability(fraud, total) ==
    IF total # 0 THEN [num |-> fraud * 100, den |-> total]
    ELSE [num |-> 0, den |-> 1]

\* (<= in place of <)
RiskLevelInclusive(p) ==
    IF p.num <= 5 * p.den THEN "LOW"
    ELSE IF p.num <= 15 * p.den THEN "MEDIUM"
    ELSE "HIGH"

\* if fraud_probability < 5 ... elif fraud_probability < 15 ... else
RiskLevel(p) ==
    IF p.num < 5 * p.den THEN "LOW"
    ELSE IF p.num < 15 * p.den THEN "MEDIUM"
    ELSE "HIGH"

\* groupby(["day_of_week", "post_hour"]).size().reset_index(name=...)
SlotCounts(t) ==
    LET g == groupby(SlotOf(t), BySlot(SlotOf(t)))
    IN  [p \in 1..Len(g) |->
            [day_of_week |-> g[p].key[1], post_hour |-> g[p].key[2],
             count |-> size(g[p].rows)]]

FraudRows(f) == SelectSeq(f, LAMBDA r : r.suspicious)

\* (the rows not restricted to ~suspicious)
SafeRowsAll(f) == f

SafeRows(f) == SelectSeq(f, LAMBDA r : ~r.suspicious)

\* TAB 6: str.lower().str.contains("video") on the content types of the model
ContainsVideo(c) == c \in {"Video"}

VideoPlatformReach(f) ==
    LET v == SelectSeq(f, LAMBDA r : ContainsVideo(r.content_type))
        g == groupby(Column(v, "platform"), ByName(Column(v, "platform")))
    IN  [p \in 1..Len(g) |->
            [platform |-> g[p].key, reach |-> mean(v, g[p].rows, "reach")]]

\* sort_values(by="reach", ascending=False).iloc[0]["platform"]: the default
\* sort is not stable, so any of the platforms with the largest mean reach
\* can come first
BestPlatforms(vpr) ==
    {vpr[p].platform : p \in {q \in 1..Len(vpr) :
        \A o \in 1..Len(vpr) : ~Less(vpr[q].reach, vpr[o].reach)}}

\* TAB 7: groupby("content_type").agg(avg_reach, avg_engagement, avg_roi)
ContentStrategy(f) ==
    LET g == groupby(Column(f, "content_type"),
                     ByName(Column(f, "content_type")))
    IN  [p \in 1..Len(g) |->
            [content_type |-> g[p].key,
             avg_reach |-> mean(f, g[p].rows, "reach"),
             avg_engagement |-> mean(f, g[p].rows, "engagement"),
             avg_roi |-> mean(f, g[p].rows, "roi")]]

----------------------------------------------------------------------------
(* One execution of the script, lines 23-291, as the values it leaves behind *)

\* A run that stops at an exception leaves the later names unassigned: their
\* "best X" results and tables are empty, the counts 0 and risk_level
\* "unassigned"; such values are read only together with status.
\* (Each intermediate table is bound once, as the element of a one-element
\* set, so that it is computed once.)
Results(d, f, thr, fr, hr, fh, sf, vpr, cs) ==
    LET t4 == Len(hr) > 0                \* else idxmax raises in tab 4
        t7 == t4 /\ Len(cs) > 0          \* else idxmax raises in tab 7
    IN  [df |-> d,
         filtered_df |-> f,
         high_engagement_threshold |-> thr,
         fraud_df |-> fr,
         hourly |-> hr,
         best_hour |->
            IF t4 THEN {hr[idxmax(Column(hr, "engagement"))].post_hour}
            ELSE {},
         total_posts |-> IF t4 THEN Len(f) ELSE 0,
         fraud_posts |-> IF t4 THEN Len(fr) ELSE 0,
         risk_level |->
            IF t4 THEN RiskLevel(FraudProbability(Len(fr), Len(f)))
            ELSE "unassigned",
         fraud_heatmap |-> IF t4 THEN fh ELSE <<>>,
         safe_df |-> IF t4 THEN sf ELSE <<>>,
         safest |->
            IF t4 /\ Len(sf) > 0
            THEN {<<sf[p].day_of_week, sf[p].post_hour>> :
                    p \in {idxmax(Column(sf, "count"))}}
            ELSE {},
         best_platforms |-> IF t4 THEN BestPlatforms(vpr) ELSE {},
         best_eng |->
            IF t7 THEN {cs[idxmax(Column(cs, "avg_engagement"))].content_type}
            ELSE {},
         best_reach |->
            IF t7 THEN {cs[idxmax(Column(cs, "avg_reach"))].content_type}
            ELSE {},
         best_roi |->
            IF t7 THEN {cs[idxmax(Column(cs, "avg_roi"))].content_type}
            ELSE {},
         status |-> IF t7 THEN "done" ELSE "ValueError"]

The(S) == CHOOSE x \in S : TRUE

Tabs(d, f, thr) ==
    The({Results(d, f, thr, fr, hr, fh, sf, vpr, cs) :
            fr \in {FraudRows(f)}, hr \in {Hourly(f)},
            fh \in {SlotCounts(FraudRows(f))},
            sf \in {SlotCounts(SafeRows(f))},
            vpr \in {VideoPlatformReach(f)}, cs \in {ContentStrategy(f)}})

Flag(d0, f0, thr) ==
    The({Tabs(s.df, s.filtered_df, thr) : s \in {SetSuspicious(d0, f0, thr)}})

\* (the threshold taken over df, the whole event table)
DetectOverStore(d0, f0) ==
    The({Flag(d0, f0, thr) : thr \in {quantile90(Column(d0, "engagement"))}})

\* high_engagement_threshold = filtered_df["engagement"].quantile(0.90)
Detect(d0, f0) ==
    The({Flag(d0, f0, thr) : thr \in {quantile90(Column(f0, "engagement"))}})

Filtered(d0, pf, cf, yf) ==
    The({Detect(d0, f0) : f0 \in {FilterRows(d0, pf, cf, yf)}})

Run(c, pf, cf, yf) ==
    The({Filtered(d0, pf, cf, yf) : d0 \in {DerivedMetrics(c)}})

\* the first execution: every option of the three multiselects is selected
InitWith(tables) ==
    \E c \in tables :
        \E r \in {Run(c, unique(c, "platform"), unique(c, "content_type"),
                       unique(c, "year"))} :
            /\ cache = c
            /\ platform_filter = unique(c, "platform")
            /\ content_filter = unique(c, "content_type")
            /\ year_filter = unique(c, "year")
            /\ df = r.df
            /\ filtered_df = r.filtered_df
            /\ high_engagement_threshold = r.high_engagement_threshold
            /\ fraud_df = r.fraud_df
            /\ hourly = r.hourly
            /\ best_hour = r.best_hour
            /\ total_posts = r.total_posts
            /\ fraud_posts = r.fraud_posts
            /\ risk_level = r.risk_level
            /\ fraud_heatmap = r.fraud_heatmap
            /\ safe_df = r.safe_df
            /\ safest = r.safest
            /\ best_platform \in
                 IF r.best_platforms = {} THEN {{}}
                 ELSE {{b} : b \in r.best_platforms}
            /\ best_eng = r.best_eng
            /\ best_reach = r.best_reach
            /\ best_roi = r.best_roi
            /\ status = r.status

\* a change of a sidebar widget re-executes the script with the new selection
Rerun(pf, cf, yf) ==
    \E r \in {Run(load_data, pf, cf, yf)} :
        /\ cache' = cache
        /\ platform_filter' = pf
        /\ content_filter' = cf
        /\ year_filter' = yf
        /\ df' = r.df
        /\ filtered_df' = r.filtered_df
        /\ high_engagement_threshold' = r.high_engagement_threshold
        /\ fraud_df' = r.fraud_df
        /\ hourly' = r.hourly
        /\ best_hour' = r.best_hour
        /\ total_posts' = r.total_posts
        /\ fraud_posts' = r.fraud_posts
        /\ risk_level' = r.risk_level
        /\ fraud_heatmap' = r.fraud_heatmap
        /\ safe_df' = r.safe_df
        /\ safest' = r.safest
        /\ best_platform' \in
             IF r.best_platforms = {} THEN {{}}
             ELSE {{b} : b \in r.best_platforms}
        /\ best_eng' = r.best_eng
        /\ best_reach' = r.best_reach
        /\ best_roi' = r.best_roi
        /\ status' = r.status

\* the options of a multiselect are the values of its column in df
SelectPlatform ==
    \E sel \in SUBSET unique(df, "platform") :
        /\ sel # platform_filter
        /\ Rerun(sel, content_filter, year_filter)

SelectContent ==
    \E sel \in SUBSET unique(df, "content_type") :
        /\ sel # content_filter
        /\ Rerun(platform_filter, sel, year_filter)

SelectYear ==
    \E sel \in SUBSET unique(df, "year") :
        /\ sel # year_filter
        /\ Rerun(platform_filter, content_filter, sel)

Next == SelectPlatform \/ SelectContent \/ SelectYear

----------------------------------------------------------------------------
(* The event tables the specifications start from *)

TablesOver(choices, n) ==
    {WithIndex(t) : t \in UNION {[1..k -> choices] : k \in 0..n}}

Monday == <<2024, 1, 1>>
Friday == <<2024, 1, 5>>

\* Spec: platform, engagement and roi vary
DetectChoices ==
    {Row(p, "Video", 2024, 9, Monday, 1, e, 1, 1, o) :
        p \in Platforms, e \in 1..MaxEng, o \in RoiValues}

Init == InitWith(TablesOver(DetectChoices, MaxRows))

Spec == Init /\ [][Next]_vars

\* SpecFilter: the three filtered columns vary
FilterChoices ==
    {Row(p, c, y, 9, Monday, 1, 1, 1, 1, 0) :
        p \in Platforms, c \in ContentTypes, y \in Years}

InitFilter == InitWith(TablesOver(FilterChoices, MaxRows))

SpecFilter == InitFilter /\ [][Next]_vars

\* SpecSlots: weekday, hour and engagement vary
SlotChoices ==
    {Row("Instagram", "Video", 2024, h, d, 1, e, 1, 1, 0) :
        h \in Hours, d \in Dates, e \in 1..MaxEng}

InitSlots == InitWith(TablesOver(SlotChoices, MaxRows))

SpecSlots == InitSlots /\ [][Next]_vars

\* SpecBest: tables in which weekday, hour and engagement vary, tables in
\* which content type, engagement and roi vary, and tables in which platform,
\* content type and reach vary
BestEngValues == {1, 2}
ReachValues == {1, 2}

BestSlotChoices ==
    {Row("Instagram", "Video", 2024, h, d, 1, e, 1, 1, 0) :
        h \in Hours, d \in Dates, e \in BestEngValues}

ContentChoices ==
    {Row("Instagram", c, 2024, 9, Monday, 1, e, 1, 1, o) :
        c \in ContentTypes, e \in BestEngValues, o \in RoiValues}

VideoChoices ==
    {Row(p, c, 2024, 9, Monday, 1, 1, r, 1, 0) :
        p \in Platforms, c \in ContentTypes, r \in ReachValues}

InitBest ==
    InitWith(TablesOver(BestSlotChoices, MaxBestRows)
                \cup TablesOver(ContentChoices, MaxBestRows)
                \cup TablesOver(VideoChoices, MaxBestRows))

SpecBest == InitBest /\ [][Next]_vars

\* SpecStored: likes, ad_spend and roi vary; the stored engagement is 1
LikesValues == {0, 1}
SpendValues == {1, 2}
StoredRoiValues == {0 - 1, 1}

StoredChoices ==
    {Row("Instagram", "Video", 2024, 9, Monday, l, 1, 1, a, o) :
        l \in LikesValues, a \in SpendValues, o \in StoredRoiValues}

InitStored == InitWith(TablesOver(StoredChoices, MaxRows))

SpecStored == InitStored /\ [][Next]_vars

\* SpecDet: tables of up to MaxDetRows rows in which engagement and roi vary.
\* The detector reads the rows through order statistics and counts only, so
\* the tables are taken with their rows in ascending order of (engagement,
\* roi).
DetClasses == <<<<1, 0>>, <<1, 1>>, <<2, 0>>, <<2, 1>>>>

RECURSIVE NonDecreasing(_, _)
NonDecreasing(n, lo) ==
    IF n = 0 THEN {<<>>}
    ELSE UNION {{<<k>> \o t : t \in NonDecreasing(n - 1, k)} :
                    k \in lo..Len(DetClasses)}

DetTables ==
    {WithIndex([i \in 1..Len(t) |->
        Row("Instagram", "Video", 2024, 9, Monday, 1, DetClasses[t[i]][1], 1,
            1, DetClasses[t[i]][2])]) :
        t \in UNION {NonDecreasing(n, 1) : n \in 0..MaxDetRows}}

InitDet == InitWith(DetTables)

SpecDet == InitDet /\ [][Next]_vars

\* SpecRisk: lines 158-167 of tab 5 on their own, from any two counts
InitRisk ==
    /\ total_posts \in 0..MaxTotal
    /\ fraud_posts \in 0..total_posts
    /\ risk_level = "unassigned"
    /\ status = "tab5"
    /\ cache = <<>>
    /\ df = <<>>
    /\ platform_filter = {}
    /\ content_filter = {}
    /\ year_filter = {}
    /\ filtered_df = <<>>
    /\ high_engagement_threshold = {}
    /\ fraud_df = <<>>
    /\ hourly = <<>>
    /\ best_hour = {}
    /\ fraud_heatmap = <<>>
    /\ safe_df = <<>>
    /\ safest = {}
    /\ best_platform = {}
    /\ best_eng = {}
    /\ best_reach = {}
    /\ best_roi = {}

Tab5Risk ==
    /\ status = "tab5"
    /\ risk_level' = RiskLevel(FraudProbability(fraud_posts, total_posts))
    /\ status' = "done"
    /\ UNCHANGED <<cache, df, platform_filter, content_filter, year_filter,
                   filtered_df, high_engagement_threshold, fraud_df, hourly,
                   best_hour, total_posts, fraud_posts, fraud_heatmap,
                   safe_df, safest, best_platform, best_eng, best_reach,
                   best_roi>>

NextRisk == Tab5Risk

SpecRisk == InitRisk /\ [][NextRisk]_vars

----------------------------------------------------------------------------
(* Notions the properties are stated with *)

Flagged == {i \in 1..Len(filtered_df) : filtered_df[i].suspicious}

\* the k-th smallest value of s, counting from 0
Smallest(s, k) ==
    CHOOSE v \in {s[j] : j \in 1..Len(s)} :
        /\ Cardinality({j \in 1..Len(s) : s[j] < v}) <= k
        /\ k < Cardinality({j \in 1..Len(s) : s[j] <= v})

\* e lies strictly above the 90th percentile of the values s: the percentile
\* is at position 0.9 * (n - 1) of the ascending values, interpolated
\* linearly between the two neighbouring values
Above90th(e, s) ==
    /\ Len(s) > 0
    /\ LET pos == 9 * (Len(s) - 1)
           a   == Smallest(s, pos \div 10)
           b   == IF pos % 10 = 0 THEN a ELSE Smallest(s, pos \div 10 + 1)
       IN  10 * e > 10 * a + (pos % 10) * (b - a)

Passes(r) ==
    /\ r.platform \in platform_filter
    /\ r.content_type \in content_filter
    /\ r.year \in year_filter

PassesOrUnrestricted(r) ==
    /\ platform_filter = {} \/ r.platform \in platform_filter
    /\ content_filter = {} \/ r.content_type \in content_filter
    /\ year_filter = {} \/ r.year \in year_filter

MinOf(S) == CHOOSE x \in S : \A y \in S : x <= y

\* C1: every row of the filtered table is flagged suspicious iff its
\* engagement is strictly above the 90th percentile of engagement over the
\* filtered table and its roi is <= 0.
C1_SuspiciousIffAbove90thOfFiltered ==
    \A i \in 1..Len(filtered_df) :
        filtered_df[i].suspicious <=>
            /\ Above90th(filtered_df[i].engagement,
                         Column(filtered_df, "engagement"))
            /\ filtered_df[i].roi <= 0

\* a row flagged under the threshold of the filtered table that the threshold
\* of the whole table would not flag
C1_Witness ==
    \E i \in 1..Len(filtered_df) :
        /\ filtered_df[i].suspicious
        /\ Len(filtered_df) < Len(df)
        /\ ~Above90th(filtered_df[i].engagement, Column(df, "engagement"))

\* C2: the risk level depends on fraud_posts / total_posts * 100 only: below
\* 5 it is LOW, from 5 to below 15 MEDIUM, from 15 HIGH; no posts give LOW.
C2_RiskBands ==
    status = "done" =>
        /\ total_posts = 0 => risk_level = "LOW"
        /\ total_posts > 0 =>
            /\ 100 * fraud_posts < 5 * total_posts => risk_level = "LOW"
            /\ (/\ 5 * total_posts <= 100 * fraud_posts
                /\ 100 * fraud_posts < 15 * total_posts)
                    => risk_level = "MEDIUM"
            /\ 15 * total_posts <= 100 * fraud_posts => risk_level = "HIGH"

\* a ratio of exactly 15 has been mapped to HIGH
C2_Witness ==
    /\ status = "done"
    /\ total_posts = 20
    /\ fraud_posts = 3
    /\ risk_level = "HIGH"

\* C3 as claimed: a row of df is in the filtered table iff every selection is
\* empty or contains the row's value.
C3_EmptySelectionUnrestricted ==
    {filtered_df[i].idx : i \in 1..Len(filtered_df)}
        = {df[i].idx : i \in {j \in 1..Len(df) : PassesOrUnrestricted(df[j])}}

\* C3, amended: the filtered table holds exactly the rows of df whose
\* platform, content type and year are each contained in the selection, in
\* the order of df and with the cells of df; so an empty selection leaves no
\* row, and the selection of every value leaves all rows.
C3_FilterIsMembership ==
    /\ {filtered_df[i].idx : i \in 1..Len(filtered_df)}
         = {df[i].idx : i \in {j \in 1..Len(df) : Passes(df[j])}}
    /\ \A i, j \in 1..Len(filtered_df) :
         i < j => filtered_df[i].idx < filtered_df[j].idx
    /\ \A i \in 1..Len(filtered_df) :
         \A col \in DerivedColumns :
            filtered_df[i][col] = df[filtered_df[i].idx + 1][col]
    /\ (platform_filter = {} \/ content_filter = {} \/ year_filter = {})
         => filtered_df = <<>>

\* one selection is empty, the others are not, and no row is left
C3_Witness ==
    /\ Len(df) > 0
    /\ platform_filter = {}
    /\ content_filter # {}
    /\ year_filter # {}
    /\ filtered_df = <<>>

\* C4 as claimed: when the selection leaves no row of the event table, the
\* run completes, the risk level is that of ratio 0 and every "best X" result
\* is undefined.
C4_EmptyRunCompletes ==
    (Len(df) > 0 /\ Len(filtered_df) = 0) =>
        /\ status = "done"
        /\ risk_level = "LOW"
        /\ best_hour = {} /\ safest = {} /\ best_platform = {}
        /\ best_eng = {} /\ best_reach = {} /\ best_roi = {}

\* the value of each group of t by column key: the mean of column col
GroupMeans(t, key, col) ==
    [k \in unique(t, key) |->
        LET rows == {i \in 1..Len(t) : t[i][key] = k}
        IN  [sum |-> SumOver(rows, [i \in rows |-> t[i][col]]),
             cnt |-> Cardinality(rows)]]

Slot(r) == <<r.day_of_week, r.post_hour>>

\* the number of rows of t in each (day_of_week, post_hour) slot that occurs
SlotSizes(t) ==
    [k \in {Slot(t[i]) : i \in 1..Len(t)} |->
        [sum |-> Cardinality({i \in 1..Len(t) : Slot(t[i]) = k}), cnt |-> 1]]

MaxKeys(val) ==
    {k \in DOMAIN val : \A o \in DOMAIN val : ~Less(val[k], val[o])}

SafeTable == SelectSeq(filtered_df, LAMBDA r : ~r.suspicious)
VideoTable == SelectSeq(filtered_df, LAMBDA r : r.content_type = "Video")

FirstRow(t, key, k) == MinOf({i \in 1..Len(t) : t[i][key] = k})
FirstSlotRow(t, k) == MinOf({i \in 1..Len(t) : Slot(t[i]) = k})

\* among the keys ks, those whose first row in t comes first
FirstSeen(t, key, ks) ==
    {k \in ks : \A o \in ks : FirstRow(t, key, k) <= FirstRow(t, key, o)}

FirstSeenSlot(t, ks) ==
    {k \in ks : \A o \in ks : FirstSlotRow(t, k) <= FirstSlotRow(t, o)}

LeastHour(ks) == {k \in ks : \A o \in ks : k <= o}
LeastName(ks) == {k \in ks : \A o \in ks : StrRank(k) <= StrRank(o)}
LeastSlot(ks) == {k \in ks : \A o \in ks : SlotRank(k) <= SlotRank(o)}

\* C5 as claimed: every "best X" result of a completed run is a group of
\* maximal value and, among the groups of maximal value, the one whose key
\* occurs first in the filtered table.
C5_TiesFirstSeen ==
    status = "done" =>
        /\ best_hour = FirstSeen(filtered_df, "post_hour",
                MaxKeys(GroupMeans(filtered_df, "post_hour", "engagement")))
        /\ best_eng = FirstSeen(filtered_df, "content_type",
                MaxKeys(GroupMeans(filtered_df, "content_type", "engagement")))
        /\ best_reach = FirstSeen(filtered_df, "content_type",
                MaxKeys(GroupMeans(filtered_df, "content_type", "reach")))
        /\ best_roi = FirstSeen(filtered_df, "content_type",
                MaxKeys(GroupMeans(filtered_df, "content_type", "roi")))
        /\ safest = FirstSeenSlot(SafeTable, MaxKeys(SlotSizes(SafeTable)))
        /\ best_platform = FirstSeen(VideoTable, "platform",
                MaxKeys(GroupMeans(VideoTable, "platform", "reach")))

\* C5, amended: every "best X" result of a completed run is a group of
\* maximal value; among the groups of maximal value, best hour, best content
\* types and safest slot are the one whose key is least in sorted key order
\* (hour ascending, names alphabetical, slots by day name then hour), and the
\* best video platform is one of them (none when there is no video row).
C5_TiesSortedKeyOrder ==
    status = "done" =>
        /\ best_hour = LeastHour(
                MaxKeys(GroupMeans(filtered_df, "post_hour", "engagement")))
        /\ best_eng = LeastName(
                MaxKeys(GroupMeans(filtered_df, "content_type", "engagement")))
        /\ best_reach = LeastName(
                MaxKeys(GroupMeans(filtered_df, "content_type", "reach")))
        /\ best_roi = LeastName(
                MaxKeys(GroupMeans(filtered_df, "content_type", "roi")))
        /\ safest = LeastSlot(MaxKeys(SlotSizes(SafeTable)))
        /\ Cardinality(best_hour) = 1 /\ Cardinality(best_eng) = 1
        /\ Cardinality(best_reach) = 1 /\ Cardinality(best_roi) = 1
        /\ Cardinality(safest) = 1
        /\ best_platform \subseteq
                MaxKeys(GroupMeans(VideoTable, "platform", "reach"))
        /\ Cardinality(best_platform) = IF Len(VideoTable) > 0 THEN 1 ELSE 0

\* two hours tie for the best mean engagement, the later hour occurs first in
\* the filtered table and the earlier hour is the result
C5_Witness ==
    /\ status = "done"
    /\ MaxKeys(GroupMeans(filtered_df, "post_hour", "engagement")) = {9, 18}
    /\ filtered_df[1].post_hour = 18
    /\ Len(filtered_df) = 3
    /\ best_hour = {9}

\* C6: filtering and flagging leave the loaded and derived table as it was
\* loaded, without a column "suspicious", and the flags of the filtered table
\* are those that the cached event table and the current selection determine.
C6_SharedTableUntouched ==
    /\ Len(df) = Len(cache)
    /\ \A i \in 1..Len(df) :
         /\ DOMAIN df[i] = DerivedColumns
         /\ \A col \in RawColumns : df[i][col] = cache[i][col]
    /\ LET selected == SelectSeq(cache, Passes)
       IN  /\ Len(filtered_df) = Len(selected)
           /\ \A i \in 1..Len(selected) :
                /\ filtered_df[i].idx = selected[i].idx
                /\ filtered_df[i].suspicious <=>
                     /\ Above90th(selected[i].engagement,
                                  Column(selected, "engagement"))
                     /\ selected[i].roi <= 0

\* after a change of the platform selection a row of the filtered table is
\* flagged
C6_Witness ==
    /\ platform_filter # unique(df, "platform")
    /\ Flagged # {}
    /\ Len(df) = 3

Total(counts) == SumOver(1..Len(counts), [p \in 1..Len(counts) |-> counts[p].count.sum])

CountAt(counts, k) ==
    LET ps == {p \in 1..Len(counts) :
                <<counts[p].day_of_week, counts[p].post_hour>> = k}
    IN  SumOver(ps, [p \in ps |-> counts[p].count.sum])

\* C7: the suspicious and the safe breakdown by (day_of_week, post_hour) hold
\* only slots with at least one row, at most once each, and every filtered
\* row is counted in exactly one of them: per slot, and so in total, the two
\* counts add up to the number of filtered rows.
C7_BreakdownsPartitionFiltered ==
    /\ \A p \in 1..Len(fraud_heatmap) : fraud_heatmap[p].count.sum >= 1
    /\ \A p \in 1..Len(safe_df) : safe_df[p].count.sum >= 1
    /\ \A p, q \in 1..Len(fraud_heatmap) :
         Slot(fraud_heatmap[p]) = Slot(fraud_heatmap[q]) => p = q
    /\ \A p, q \in 1..Len(safe_df) :
         Slot(safe_df[p]) = Slot(safe_df[q]) => p = q
    /\ \A k \in {<<d, h>> : d \in {day_name(x) : x \in Dates}, h \in Hours} :
         /\ CountAt(fraud_heatmap, k) = Cardinality(
                {i \in Flagged : Slot(filtered_df[i]) = k})
         /\ CountAt(safe_df, k) = Cardinality(
                {i \in 1..Len(filtered_df) \ Flagged :
                    Slot(filtered_df[i]) = k})
    /\ Total(fraud_heatmap) + Total(safe_df) = Len(filtered_df)

\* a suspicious slot and two safe slots
C7_Witness ==
    /\ status = "done"
    /\ Len(fraud_heatmap) = 1
    /\ Len(safe_df) = 2

\* C8 as claimed: engagement is likes + comments + shares and
\* revenue_generated is ad_spend * (1 + roi), for every row of df.
C8_EngagementIsSumOfParts ==
    \A i \in 1..Len(df) :
        /\ df[i].engagement = df[i].likes + df[i].comments + df[i].shares
        /\ df[i].revenue_generated = df[i].ad_spend * (1 + df[i].roi)

\* C8, amended: revenue_generated is ad_spend * (1 + roi) of the stored
\* ad_spend and roi, and engagement is the stored engagement column as
\* loaded, for every row of df and of the filtered table.
C8_RevenueDerivedEngagementStored ==
    /\ \A i \in 1..Len(df) :
        /\ df[i].revenue_generated = cache[i].ad_spend * (1 + cache[i].roi)
        /\ df[i].engagement = cache[i].engagement
    /\ \A i \in 1..Len(filtered_df) :
        LET c == cache[filtered_df[i].idx + 1]
        IN  /\ filtered_df[i].revenue_generated = c.ad_spend * (1 + c.roi)
            /\ filtered_df[i].engagement = c.engagement

\* a filtered row whose stored engagement is not the sum of its parts, with
\* its revenue
C8_Witness ==
    \E i \in 1..Len(filtered_df) :
        /\ filtered_df[i].likes = 0
        /\ filtered_df[i].engagement = 1
        /\ filtered_df[i].ad_spend = 2
        /\ filtered_df[i].roi = 1
        /\ filtered_df[i].revenue_generated = 4

\* rows i and j are two rows of highest engagement, both with roi <= 0
TopTwo(i, j) ==
    /\ i # j
    /\ filtered_df[i].roi <= 0
    /\ filtered_df[j].roi <= 0
    /\ \A k \in (1..Len(filtered_df)) \ {i, j} :
         /\ filtered_df[k].engagement <= filtered_df[i].engagement
         /\ filtered_df[k].engagement <= filtered_df[j].engagement

\* C9 as claimed: of 10 filtered rows whose two rows of highest engagement
\* have roi <= 0, exactly these two are flagged, and the risk level is HIGH.
C9_TopTwoOfTenFlagged ==
    (Len(filtered_df) = 10 /\ \E i, j \in 1..10 : TopTwo(i, j)) =>
        /\ \E i, j \in 1..10 : TopTwo(i, j) /\ Flagged = {i, j}
        /\ fraud_posts = 2
        /\ risk_level = "HIGH"

\* C9, amended: of 10 filtered rows whose two rows of highest engagement
\* have roi <= 0, only a row whose engagement is strictly above that of all
\* other rows is flagged; with such a row the count is 1 and the risk level
\* MEDIUM (ratio 10), otherwise the count is 0 and the risk level LOW.
C9_OnlyStrictTopOfTenFlagged ==
    (Len(filtered_df) = 10 /\ \E i, j \in 1..10 : TopTwo(i, j)) =>
        /\ Flagged = {i \in 1..10 : \A k \in (1..10) \ {i} :
                        filtered_df[k].engagement < filtered_df[i].engagement}
        /\ fraud_posts = Cardinality(Flagged)
        /\ fraud_posts <= 1
        /\ risk_level = IF fraud_posts = 1 THEN "MEDIUM" ELSE "LOW"

\* 10 rows, two rows of highest engagement with roi <= 0, one of them flagged
C9_Witness ==
    /\ Len(filtered_df) = 10
    /\ \E i, j \in 1..10 : TopTwo(i, j)
    /\ fraud_posts = 1
    /\ risk_level = "MEDIUM"

\* C10: of n >= 1 filtered rows at most n - 1 - floor(0.9 * (n - 1)) are
\* flagged; a row of least engagement is never flagged, a single row is
\* never flagged, and from 14 rows on the risk level is not HIGH.
C10_FlaggedCountBound ==
    Len(filtered_df) >= 1 =>
        LET n == Len(filtered_df)
        IN  /\ Cardinality(Flagged) <= n - 1 - ((9 * (n - 1)) \div 10)
            /\ \A i \in 1..n :
                 (\A k \in 1..n :
                    filtered_df[i].engagement <= filtered_df[k].engagement)
                    => ~filtered_df[i].suspicious
            /\ n = 1 => Flagged = {}
            /\ n >= 14 => risk_level \in {"LOW", "MEDIUM"}

\* 14 rows, as many of them flagged as the bound allows
C10_Witness ==
    /\ Len(filtered_df) = 14
    /\ Cardinality(Flagged) = 2
    /\ risk_level = "MEDIUM"

====
